---- MODULE Spec2Model ----
(***************************************************************************)
(* A model of integral_io.hpp: as_integer() views that read and write      *)
(* integers of any width as decimal text through an iostream.              *)
(*                                                                         *)
(* Text is a sequence of character codes (ASCII), so that a one-byte value *)
(* written as a character ('A' for 65) differs from its numeral ("65").    *)
(* The stream collaborators (operator>> and operator<< of the standard     *)
(* library for short / unsigned short / char) are modelled by what they do *)
(* to the characters and to the stream state.                              *)
(***************************************************************************)
EXTENDS Integers, Sequences, FiniteSets, TLC

VARIABLES
    T,          \* the Integer template argument of the view (fixed per behaviour)
    m_value,    \* the caller's location the Read/Write View refers to
    is_text,    \* unread characters of the input stream
    is_state,   \* iostate flags of the input stream, a subset of {"failbit","eofbit"}
    os_text,    \* characters written by the most recent formatting call
    op,         \* the operation executed last
    lastIn,     \* locals and outcome of the most recent input() call
    via         \* the type handed to the stream by the most recent I/O call

vars == <<T, m_value, is_text, is_state, os_text, op, lastIn, via>>

(***************************************************************************)
(* Bounds of the model.                                                    *)
(***************************************************************************)
\* input numerals cover every integer in -Near..Near
Near == 260
\* and every integer within Far of +-32768 and of +-65536
Far == 2

(***************************************************************************)
(* Integer type descriptors.                                               *)
(***************************************************************************)
Types == {"bool", "int8", "uint8", "int16", "uint16"}

sizeof(t) == IF t \in {"bool", "int8", "uint8"} THEN 1 ELSE 2

is_signed(t) == t \in {"int8", "int16"}

numeric_limits_max(t) ==
    CASE t = "bool"   -> 1
      [] t = "int8"   -> 127
      [] t = "uint8"  -> 255
      [] t = "int16"  -> 32767
      [] t = "uint16" -> 65535

numeric_limits_min(t) ==
    CASE t = "int8"  -> -128
      [] t = "int16" -> -32768
      [] OTHER       -> 0

ValuesOf(t) == numeric_limits_min(t)..numeric_limits_max(t)

\* static_cast<t>(x) of an integer x: modular for integer types, x != 0 for bool.
static_cast(t, x) ==
    IF t = "bool" THEN (IF x = 0 THEN 0 ELSE 1)
    ELSE LET m == numeric_limits_max(t) - numeric_limits_min(t) + 1
         IN  ((x - numeric_limits_min(t)) % m) + numeric_limits_min(t)

(***************************************************************************)
(* Width Classifier.                                                       *)
(***************************************************************************)
integral_io_trait_signed_for_unsigned(t) ==
    IF sizeof(t) > 1 THEN t ELSE "int16"

integral_io_trait(t) ==
    IF sizeof(t) > 1 THEN t
    ELSE IF is_signed(t) THEN "int16"
    ELSE "uint16"

(***************************************************************************)
(* Characters and decimal text.                                            *)
(***************************************************************************)
Chars == [minus |-> 45, plus |-> 43, zero |-> 48, nine |-> 57, x |-> 120]

IsDigit(c) == c >= Chars.zero /\ c <= Chars.nine

RECURSIVE DecimalDigits(_)
\* the digits of n >= 0, most significant first, as num_put writes them
DecimalDigits(n) ==
    IF n < 10 THEN <<Chars.zero + n>>
    ELSE Append(DecimalDigits(n \div 10), Chars.zero + (n % 10))

\* num_put of a signed or unsigned integer in the default (decimal) base
Decimal(n) ==
    IF n < 0 THEN <<Chars.minus>> \o DecimalDigits(-n) ELSE DecimalDigits(n)

(***************************************************************************)
(* Text Sink: os << x where x has static type u.                           *)
(***************************************************************************)
ostream_insert(u, x) ==
    IF u \in {"int8", "uint8"}
    THEN <<static_cast("uint8", x)>>     \* a char is written as one character
    ELSE Decimal(x)                      \* short, unsigned short, bool

(***************************************************************************)
(* Text Source: is >> x where x has static type u.                         *)
(***************************************************************************)
RECURSIVE DigitCount(_)
\* length of the longest prefix of digits
DigitCount(text) ==
    IF text = <<>> \/ ~IsDigit(Head(text)) THEN 0
    ELSE 1 + DigitCount(Tail(text))

RECURSIVE DigitsValue(_, _)
\* value of a sequence of digits, accumulated left to right from acc
DigitsValue(digits, acc) ==
    IF digits = <<>> THEN acc
    ELSE DigitsValue(Tail(digits), acc * 10 + (Head(digits) - Chars.zero))

\* num_get stage 2: an optional sign, then digits; stops at the first other
\* character or at the end of the stream
Scan(text) ==
    LET signed == text # <<>> /\ Head(text) \in {Chars.minus, Chars.plus}
        body   == IF signed THEN Tail(text) ELSE text
        n      == DigitCount(body)
    IN  [ negative  |-> signed /\ Head(text) = Chars.minus,
          ndigits   |-> n,
          magnitude |-> DigitsValue(SubSeq(body, 1, n), 0),
          rest      |-> SubSeq(body, n + 1, Len(body)),
          hit_eof   |-> n = Len(body) ]

\* num_get stage 3 for the 16-bit targets and bool: the value stored and
\* whether failbit is raised
Convert(u, sc) ==
    LET l == IF sc.negative THEN -sc.magnitude ELSE sc.magnitude
    IN  CASE sc.ndigits = 0 -> [val |-> 0, err |-> TRUE]
          [] sc.ndigits > 0 /\ u = "int16" ->
                IF l < numeric_limits_min(u)
                    THEN [val |-> numeric_limits_min(u), err |-> TRUE]
                ELSE IF l > numeric_limits_max(u)
                    THEN [val |-> numeric_limits_max(u), err |-> TRUE]
                ELSE [val |-> l, err |-> FALSE]
          [] sc.ndigits > 0 /\ u = "uint16" ->
                IF sc.magnitude > numeric_limits_max(u)
                    THEN [val |-> numeric_limits_max(u), err |-> TRUE]
                ELSE [val |-> static_cast(u, l), err |-> FALSE]
          [] sc.ndigits > 0 /\ u = "bool" ->
                IF l \in {0, 1} THEN [val |-> l, err |-> FALSE]
                ELSE [val |-> 1, err |-> TRUE]

\* is >> x: [touched, val, rest, state]; touched says whether x was assigned
istream_extract(u, text, state) ==
    IF state # {}
        \* the sentry fails on a stream that is not good(): x is left alone
        THEN [touched |-> FALSE, val |-> 0, rest |-> text,
              state |-> state \cup {"failbit"}]
    ELSE IF text = <<>>
        \* the sentry meets the end of the stream
        THEN [touched |-> FALSE, val |-> 0, rest |-> text,
              state |-> {"failbit", "eofbit"}]
    ELSE IF u \in {"int8", "uint8"}
        \* a char target takes one character
        THEN [touched |-> TRUE, val |-> static_cast(u, Head(text)),
              rest |-> Tail(text), state |-> {}]
    ELSE LET sc == Scan(text)
             cv == Convert(u, sc)
         IN  [touched |-> TRUE, val |-> cv.val,
              rest |-> sc.rest,
              state |-> (IF cv.err THEN {"failbit"} ELSE {})
                        \cup (IF sc.hit_eof THEN {"eofbit"} ELSE {})]

(***************************************************************************)
(* The views.                                                              *)
(***************************************************************************)
\* the type the Write View hands to the stream
WriteViewType(t) == integral_io_trait(t)

\* the type the Read/Write View hands to the stream, for output and for input
ReadWriteViewType(t) == IF sizeof(t) > 1 THEN t ELSE "int16"

\* os << m_value, the promotion forgotten
integral_output_wrapper_output_unpromoted(t, v) == ostream_insert(t, v)

\* integral_output_wrapper::output
integral_output_wrapper_output(t, v) ==
    ostream_insert(WriteViewType(t), static_cast(WriteViewType(t), v))

\* integral_io_wrapper::output
integral_io_wrapper_output(t, v) ==
    ostream_insert(ReadWriteViewType(t), static_cast(ReadWriteViewType(t), v))

\* temp > static_cast<std::int16_t>(std::numeric_limits<Integer>::max())
exceeds_max_inclusive(t, temp) == temp >= static_cast("int16", numeric_limits_max(t))

exceeds_max(t, temp) == temp > static_cast("int16", numeric_limits_max(t))

\* temp < static_cast<std::int16_t>(std::numeric_limits<Integer>::min())
below_min_inclusive(t, temp) == temp <= static_cast("int16", numeric_limits_min(t))

below_min(t, temp) == temp < static_cast("int16", numeric_limits_min(t))

\* (temp * -1) <= static_cast<std::int16_t>(std::numeric_limits<Integer>::max())
magnitude_fits_strict(t, neg) == neg < static_cast("int16", numeric_limits_max(t))

magnitude_fits(t, neg) == neg <= static_cast("int16", numeric_limits_max(t))

\* temp * -1 carried out in 16 bits
negate_int16(temp) == static_cast("int16", temp * (-1))

\* temp * -1, computed in int after integral promotion
negate_promoted(temp) == temp * (-1)

\* max() + temp, the + 1 forgotten
wrap_sum_off_by_one(t, temp) == numeric_limits_max(t) + temp

\* max() + temp + 1, computed in int after integral promotion
wrap_sum(t, temp) == numeric_limits_max(t) + temp + 1

\* what an input() call leaves behind
Outcome(value, ex, temp, neg, sum, signalled, branch) ==
    [ value     |-> value,
      rest      |-> ex.rest,
      state     |-> ex.state \cup (IF signalled THEN {"failbit"} ELSE {}),
      touched   |-> ex.touched,
      src_ok    |-> ex.touched /\ "failbit" \notin ex.state,
      buffer    |-> temp,
      neg       |-> neg,
      sum       |-> sum,
      signalled |-> signalled,
      branch    |-> branch ]

\* is >> m_value through a short whatever the target
input_generic_through_short(t, m, text, state) ==
    LET ex == istream_extract("int16", text, state)
        v  == IF ex.touched THEN ex.val ELSE m
    IN  Outcome(v, ex, v, 0, 0, FALSE, "direct")

\* integral_io_wrapper<Integer>::input for sizeof(Integer) > 1
input_generic(t, m, text, state) ==
    LET ex == istream_extract(t, text, state)
        v  == IF ex.touched THEN ex.val ELSE m
    IN  Outcome(v, ex, v, 0, 0, FALSE, "direct")

\* integral_io_wrapper<Integer, Integer, 1, true>::input; garbage is what an
\* unassigned temp happens to hold
input_signed1(t, m, text, state, garbage) ==
    LET ex   == istream_extract("int16", text, state)
        temp == IF ex.touched THEN ex.val ELSE garbage
    IN  IF exceeds_max(t, temp)
            THEN Outcome(numeric_limits_max(t), ex, temp, 0, 0, TRUE, "overflow")
        ELSE IF below_min(t, temp)
            THEN Outcome(numeric_limits_min(t), ex, temp, 0, 0, TRUE, "underflow")
        ELSE Outcome(static_cast(t, temp), ex, temp, 0, 0, FALSE, "fit")

\* integral_io_wrapper<Integer, Integer, 1, false>::input
input_unsigned1(t, m, text, state, garbage) ==
    LET ex   == istream_extract("int16", text, state)
        temp == IF ex.touched THEN ex.val ELSE garbage
        neg  == negate_promoted(temp)
        sum  == wrap_sum(t, temp)
    IN  IF exceeds_max(t, temp)
            THEN Outcome(numeric_limits_max(t), ex, temp, 0, 0, TRUE, "overflow")
        ELSE IF temp < 0
            THEN IF magnitude_fits(t, neg)
                    THEN Outcome(static_cast(t, sum), ex, temp, neg, sum, FALSE, "wrap")
                 ELSE Outcome(numeric_limits_max(t), ex, temp, neg, 0, TRUE, "neg_clamp")
        ELSE Outcome(static_cast(t, temp), ex, temp, 0, 0, FALSE, "fit")

\* every type takes the generic is >> m_value
integral_io_wrapper_input_unspecialised(t, m, text, state, garbage) ==
    LET ex == istream_extract(t, text, state)
        v  == IF ex.touched THEN ex.val ELSE m
    IN  Outcome(v, ex, v, 0, 0, FALSE, "direct")

\* the specialisation of integral_io_wrapper<Integer>::input chosen for t
integral_io_wrapper_input(t, m, text, state, garbage) ==
    IF sizeof(t) > 1 THEN input_generic(t, m, text, state)
    ELSE IF is_signed(t) THEN input_signed1(t, m, text, state, garbage)
    ELSE input_unsigned1(t, m, text, state, garbage)

(***************************************************************************)
(* The caller's inputs.                                                    *)
(***************************************************************************)
Boundaries == {32768, 65536}

InputNumbers ==
    (-Near..Near)
    \cup {s * (b + d) : s \in {-1, 1}, b \in Boundaries, d \in -Far..Far}
    \cup {-40000, -300, 300, 40000}

\* texts no number can be read from, and a number followed by other text
Malformed ==
    { <<>>, <<Chars.x>>, <<Chars.minus>>, <<Chars.minus, Chars.x>>,
      <<Chars.plus, Chars.zero + 7>>, <<Chars.zero + 1, Chars.zero + 2, Chars.x>> }

InputTexts == {Decimal(n) : n \in InputNumbers} \cup Malformed

\* values an unassigned int16_t may hold
Uninitialized == {-32768, -1, 300}

\* the values temp may hold before is >> temp assigns it; they matter only
\* when the extraction leaves temp alone
TempBefore(text, state) ==
    IF istream_extract("int16", text, state).touched THEN {0} ELSE Uninitialized

NoInput ==
    [ text |-> <<>>, prev |-> 0, pre_state |-> {}, touched |-> FALSE,
      src_ok |-> FALSE, buffer |-> 0, neg |-> 0, sum |-> 0,
      signalled |-> FALSE, branch |-> "none", after_clamp |-> FALSE ]

(***************************************************************************)
(* The state machine.                                                      *)
(***************************************************************************)
Init ==
    /\ T \in Types
    /\ m_value = 1
    /\ is_text \in InputTexts
    /\ is_state = {}
    /\ os_text = <<>>
    /\ op = "init"
    /\ lastIn = NoInput
    /\ via = "none"

\* is >> as_integer(location)
Input ==
    \E garbage \in TempBefore(is_text, is_state) :
        LET r == integral_io_wrapper_input(T, m_value, is_text, is_state, garbage)
        IN  /\ m_value' = r.value
            /\ is_text' = r.rest
            /\ is_state' = r.state
            /\ op' = "input"
            /\ via' = ReadWriteViewType(T)
            /\ lastIn' = [ text |-> is_text, prev |-> m_value,
                           pre_state |-> is_state, touched |-> r.touched,
                           src_ok |-> r.src_ok, buffer |-> r.buffer,
                           neg |-> r.neg, sum |-> r.sum,
                           signalled |-> r.signalled, branch |-> r.branch,
                           after_clamp |-> lastIn.signalled /\ lastIn.touched ]
            /\ UNCHANGED <<T, os_text>>

\* os << as_integer(value), a Write View over a copy of the value
OutputW ==
    /\ os_text' = integral_output_wrapper_output(T, m_value)
    /\ op' = "output_w"
    /\ via' = WriteViewType(T)
    /\ UNCHANGED <<T, m_value, is_text, is_state, lastIn>>

\* os << as_integer(location), a Read/Write View
OutputRW ==
    /\ os_text' = integral_io_wrapper_output(T, m_value)
    /\ op' = "output_rw"
    /\ via' = ReadWriteViewType(T)
    /\ UNCHANGED <<T, m_value, is_text, is_state, lastIn>>

\* the caller hands the formatted text back to the input stream: is.str(os.str())
Feed ==
    /\ op \in {"output_w", "output_rw"}
    /\ is_text' = os_text
    /\ op' = "str"
    /\ UNCHANGED <<T, m_value, is_state, os_text, lastIn, via>>

\* the caller resets the stream state: is.clear()
Clear ==
    /\ is_state # {}
    /\ is_state' = {}
    /\ op' = "clear"
    /\ UNCHANGED <<T, m_value, is_text, os_text, lastIn, via>>

Next == Input \/ OutputW \/ OutputRW \/ Feed \/ Clear

Spec == Init /\ [][Next]_vars

(***************************************************************************)
(* Properties.                                                             *)
(***************************************************************************)
OneByte == sizeof(T) = 1

Failed == "failbit" \in is_state

\* text is the decimal numeral of v: an optional '-' for v < 0, then digits
\* without a leading zero, whose value is |v|
IsNumeralOf(text, v) ==
    LET digits == IF v < 0 THEN Tail(text) ELSE text
    IN  /\ text # <<>>
        /\ (v < 0) => Head(text) = Chars.minus
        /\ digits # <<>>
        /\ \A i \in 1..Len(digits) : IsDigit(digits[i])
        /\ (Len(digits) > 1) => digits[1] # Chars.zero
        /\ DigitsValue(digits, 0) = (IF v < 0 THEN -v ELSE v)

\* the most recent input() read back the text that formatting the value the
\* target then held produces, from a stream that was good()
ReadBackOwnText ==
    /\ op = "input"
    /\ lastIn.pre_state = {}
    /\ lastIn.text = integral_io_wrapper_output(T, lastIn.prev)

C3_SignedClampAndFailure ==
    (op = "input" /\ OneByte /\ is_signed(T) /\ lastIn.src_ok)
    => LET b == lastIn.buffer
       IN  /\ m_value = IF b > numeric_limits_max(T) THEN numeric_limits_max(T)
                        ELSE IF b < numeric_limits_min(T) THEN numeric_limits_min(T)
                        ELSE b
           /\ Failed <=> (b > numeric_limits_max(T) \/ b < numeric_limits_min(T))
           /\ lastIn.signalled <=> Failed

C3_Witness ==
    /\ op = "input" /\ T = "int8" /\ lastIn.src_ok
    /\ lastIn.buffer = -200 /\ m_value = -128 /\ Failed

\* C4: when the Text Source reports failure for a parse into a one-byte
\* target, the parser writes nothing derived from the buffer: the target
\* keeps its previous value.
C4_SourceFailureLeavesTarget ==
    (op = "input" /\ OneByte /\ ~lastIn.src_ok) => m_value = lastIn.prev

\* C5 as stated: the type used for text I/O is T itself when T is wider than
\* one byte and a signed 16-bit type for every one-byte T, signed or not.
C5_UnsignedByteMapsToSigned ==
    (op \in {"input", "output_w", "output_rw"})
    => via = (IF sizeof(T) > 1 THEN T ELSE "int16")

\* C5 amended: the Width Classifier, which the Write View uses, maps a wider
\* type to itself, a signed one-byte type to int16 and an unsigned one-byte
\* type to uint16; the Read/Write View uses int16 for every one-byte type.
C5_ClassifierKeepsSignedness ==
    /\ op = "output_w"
        => via = (IF sizeof(T) > 1 THEN T
                  ELSE IF is_signed(T) THEN "int16" ELSE "uint16")
    /\ op \in {"input", "output_rw"}
        => via = (IF sizeof(T) > 1 THEN T ELSE "int16")

C5_Witness == op = "output_w" /\ T = "uint8" /\ via = "uint16"

\* C6: for every one-byte type and value, formatting yields the decimal
\* numeral of the value, and the Write View and the Read/Write View produce
\* the same text.
C6_OneByteFormatsAsNumeral ==
    /\ (op = "output_w" /\ OneByte)
        => /\ IsNumeralOf(os_text, m_value)
           /\ os_text = integral_io_wrapper_output(T, m_value)
    /\ (op = "output_rw" /\ OneByte)
        => /\ IsNumeralOf(os_text, m_value)
           /\ os_text = integral_output_wrapper_output(T, m_value)

C6_Witness ==
    /\ op = "output_w" /\ T = "uint8" /\ m_value = 65
    /\ os_text = <<Chars.zero + 6, Chars.zero + 5>>

\* C7: for a type wider than one byte, parsing the text produced by
\* formatting v yields v, with no failure, no clamping and no logic beyond
\* the stream's own extraction.
C7_WideRoundTrip ==
    (ReadBackOwnText /\ ~OneByte)
    => /\ m_value = lastIn.prev
       /\ ~Failed
       /\ ~lastIn.signalled
       /\ lastIn.branch = "direct"

C7_Witness ==
    /\ ReadBackOwnText /\ T = "uint16"
    /\ lastIn.prev = 40000 /\ m_value = 40000 /\ ~Failed

\* C8: for a one-byte target, the clamped value an out-of-range parse left,
\* formatted and parsed again from a good() stream, comes back unchanged and
\* without failure.
C8_ClampIdempotent ==
    (ReadBackOwnText /\ OneByte /\ lastIn.after_clamp)
    => /\ m_value = lastIn.prev
       /\ ~Failed
       /\ ~lastIn.signalled

C8_Witness ==
    /\ ReadBackOwnText /\ T = "int8" /\ lastIn.after_clamp
    /\ lastIn.prev = -128 /\ m_value = -128 /\ ~Failed

\* C9: for every value v of a one-byte type, parsing the text produced by
\* formatting v yields v and signals no failure.
C9_OneByteRoundTrip ==
    (ReadBackOwnText /\ OneByte)
    => /\ m_value = lastIn.prev
       /\ ~Failed

C9_Witness ==
    /\ ReadBackOwnText /\ T = "uint8" /\ ~lastIn.after_clamp
    /\ lastIn.prev = 200 /\ m_value = 200 /\ ~Failed

\* C10: in the unsigned one-byte parse the arithmetic does not wrap: the
\* magnitude of a negative buffer is its mathematical negation (32768 for
\* -32768, which is rejected with the target at max(T)), and every accepted
\* wraparound sum lies in 1..max(T) and is stored unchanged.
C10_NoOverflowInUnsignedParse ==
    (op = "input" /\ OneByte /\ ~is_signed(T) /\ lastIn.buffer < 0)
    => /\ lastIn.neg = 0 - lastIn.buffer
       /\ lastIn.neg > 0
       /\ lastIn.buffer = -32768
            => (m_value = numeric_limits_max(T) /\ Failed /\ lastIn.signalled)
       /\ lastIn.branch = "wrap"
            => (lastIn.sum \in 1..numeric_limits_max(T) /\ m_value = lastIn.sum)
       /\ lastIn.branch \in {"wrap", "neg_clamp"}

C10_Witness ==
    /\ op = "input" /\ T = "uint8" /\ lastIn.src_ok
    /\ lastIn.buffer = -32768 /\ lastIn.neg = 32768
    /\ m_value = 255 /\ Failed

====
